---------------------------- MODULE Spec2Model ----------------------------
(***************************************************************************)
(* MotivateMe: the structured-output extraction pipeline of src/main.py    *)
(* (strip_code_fences, extract_first_json, json.loads,                     *)
(* validate_structured_output, get_structured_or_function_call) and the    *)
(* evaluation helpers of src/evaluate.py (similar, auto_judge,             *)
(* mock_model).                                                            *)
(*                                                                         *)
(* A Python str is a sequence of characters.  Python's None and JSON null  *)
(* are the same value, PyNone, as they are in the program.                 *)
(***************************************************************************)
EXTENDS Integers, Sequences, FiniteSets, TLC

VARIABLES
    inp,          \* arguments of the helper under examination
    out,          \* what the helper returned
    fn,           \* name of the helper that produced out ("none" before)
    calls,        \* model-call collaborator invocations of the last extraction
    prompts,      \* the prompt texts handed to the collaborator, in order
    result,       \* return value of get_structured_or_function_call
    msg,          \* what the last extraction printed
    raised,       \* TRUE when the last extraction ended by an exception
    last_output,  \* content of last_output.json
    n             \* extractions run so far

vars == <<inp, out, fn, calls, prompts, result, msg, raised, last_output, n>>

extractorVars == <<calls, prompts, result, msg, raised, last_output, n>>

(***************************************************************************)
(* Bounds of the model.                                                    *)
(***************************************************************************)
MaxLen == 5           \* longest text of the exhaustive brace-scan check
MaxInterior == 2      \* longest fenced interior
MaxRuns == 2          \* extractions in one behaviour
MaxField == 2         \* longest mood compared by the scorer
MaxDb == 3            \* most entries of a quote database

(***************************************************************************)
(* Text helpers.                                                           *)
(***************************************************************************)
RECURSIVE Texts(_, _)
Texts(alphabet, k) ==
    IF k = 0 THEN {<<>>}
    ELSE LET shorter == Texts(alphabet, k - 1)
         IN  shorter \cup {Append(t, c) : t \in shorter, c \in alphabet}

RECURSIVE Concat(_)
Concat(parts) == IF parts = <<>> THEN <<>> ELSE Head(parts) \o Concat(Tail(parts))

At(s, i) == IF i >= 1 /\ i <= Len(s) THEN s[i] ELSE ""

StartsWith(s, p) == Len(s) >= Len(p) /\ SubSeq(s, 1, Len(p)) = p
EndsWith(s, p) == Len(s) >= Len(p) /\ SubSeq(s, Len(s) - Len(p) + 1, Len(s)) = p
Drop(s, k) == SubSeq(s, k + 1, Len(s))
DropLast(s, k) == SubSeq(s, 1, Len(s) - k)
Contains(s, p) == \E i \in 0..(Len(s) - Len(p)) : SubSeq(s, i + 1, i + Len(p)) = p
Count(s, c) == Cardinality({i \in 1..Len(s) : s[i] = c})

Uppers == <<"A", "B", "H", "J", "N", "O", "P", "S", "Y">>
Lowers == <<"a", "b", "h", "j", "n", "o", "p", "s", "y">>

\* str.lower() on one character
lowerChar(c) ==
    IF \E i \in 1..Len(Uppers) : Uppers[i] = c
    THEN Lowers[CHOOSE i \in 1..Len(Uppers) : Uppers[i] = c]
    ELSE c

\* str.lower()
lower(s) == [i \in 1..Len(s) |-> lowerChar(s[i])]

\* the characters str.strip() and the regex class \s remove
WS == {" ", "\n", "\t", "\r"}

RECURSIVE lstrip(_)
lstrip(s) == IF s /= <<>> /\ Head(s) \in WS THEN lstrip(Tail(s)) ELSE s

RECURSIVE rstrip(_)
rstrip(s) == IF s /= <<>> /\ s[Len(s)] \in WS THEN rstrip(DropLast(s, 1)) ELSE s

\* str.strip()
strip(s) == rstrip(lstrip(s))

\* the backquote character, which a TLA+ string cannot hold
BQ == "BQ"

Fence == <<BQ, BQ, BQ>>
JsonTag == <<"j", "s", "o", "n">>

(***************************************************************************)
(* strip_code_fences, src/main.py:33-40.                                   *)
(***************************************************************************)
\* line 38: the substitution that removes, ignoring case, a fence at the
\* start of the text, the tag json when it follows, and the whitespace after
SubLeadingFence(text) ==
    IF ~StartsWith(text, Fence) THEN text
    ELSE LET afterFence == Drop(text, 3)
             afterTag == IF StartsWith(lower(afterFence), JsonTag)
                         THEN Drop(afterFence, 4)
                         ELSE afterFence
         IN  lstrip(afterTag)

\* the trailing substitution left out
SubTrailingFenceKept(text) == text

\* line 39: the substitution that removes a fence at the end of the text and
\* the whitespace before it; the end is also the position before a final newline
SubTrailingFence(text) ==
    IF EndsWith(text, Fence) THEN rstrip(DropLast(text, 3))
    ELSE IF EndsWith(text, Fence \o <<"\n">>)
         THEN Append(rstrip(DropLast(text, 4)), "\n")
         ELSE text

strip_code_fences(text) ==
    IF text = <<>> THEN text
    ELSE strip(SubTrailingFence(SubLeadingFence(strip(text))))

(***************************************************************************)
(* extract_first_json, src/main.py:42-58.  An Optional[str] is a record    *)
(* [some, v].                                                              *)
(***************************************************************************)
NoText == [some |-> FALSE, v |-> <<>>]
SomeText(s) == [some |-> TRUE, v |-> s]

\* text.find("{"): the first index of "{", 0 when there is none
FindBrace(text) ==
    IF \E i \in 1..Len(text) : text[i] = "{"
    THEN CHOOSE i \in 1..Len(text) :
            text[i] = "{" /\ \A j \in 1..(i - 1) : text[j] /= "{"
    ELSE 0

\* a scan that counts only opening braces
DepthStepOpenOnly(ch, depth) == IF ch = "{" THEN depth + 1 ELSE depth

\* the depth after the character at i, given the depth before it
DepthStep(ch, depth) ==
    IF ch = "{" THEN depth + 1
    ELSE IF ch = "}" THEN depth - 1
    ELSE depth

\* the next index from i that holds a brace, 0 when there is none: the loop
\* of lines 50-57 changes nothing at any other character
NextBrace(text, i) ==
    LET braces == {j \in i..Len(text) : text[j] \in {"{", "}"}}
    IN  IF braces = {} THEN 0 ELSE CHOOSE j \in braces : \A k \in braces : j <= k

\* the loop of lines 50-57, from index i with the depth reached so far
RECURSIVE ScanBraces(_, _, _, _)
ScanBraces(text, start, i, depth) ==
    LET j == NextBrace(text, i)
        d == DepthStep(text[j], depth)
    IN  IF j = 0 THEN NoText
        ELSE IF text[j] = "}" /\ d = 0
             THEN SomeText(SubSeq(text, start, j))
             ELSE ScanBraces(text, start, j + 1, d)

extract_first_json(text) ==
    IF text = <<>> THEN NoText
    ELSE LET start == FindBrace(text)
         IN  IF start = 0 THEN NoText
             ELSE ScanBraces(text, start, start, 0)

(***************************************************************************)
(* json.loads as called at src/main.py:158 and 163.  A decoded value is a  *)
(* record [t, v]: t the JSON type, v the characters of a string or number, *)
(* the items of an array, the <<key, value>> pairs of an object in the     *)
(* order of a Python dict.  The texts of the model hold no backslash, no fraction, no  *)
(* exponent and no digits but 0 and 1.                                     *)
(***************************************************************************)
PyNone == [t |-> "null", v |-> <<>>]
JStr(chars) == [t |-> "str", v |-> chars]
JNum(chars) == [t |-> "num", v |-> chars]
JBool(chars) == [t |-> "bool", v |-> chars]
JArr(items) == [t |-> "arr", v |-> items]
JObj(pairs) == [t |-> "obj", v |-> pairs]

\* a decoding step: the value read and the index after it, or a failure
Decoded(val, next) == [ok |-> TRUE, val |-> val, next |-> next]
DecodeError == [ok |-> FALSE, val |-> PyNone, next |-> 0]

JsonWS == {" ", "\t", "\n", "\r"}
Digits == {"0", "1"}
ControlChars == {"\n", "\t", "\r"}

RECURSIVE SkipWS(_, _)
SkipWS(s, i) == IF At(s, i) \in JsonWS THEN SkipWS(s, i + 1) ELSE i

RECURSIVE SkipDigits(_, _)
SkipDigits(s, i) == IF At(s, i) \in Digits THEN SkipDigits(s, i + 1) ELSE i

\* a string whose opening quote is at i: it ends at the next quote, and holds
\* no control character unescaped
ParseString(s, i) ==
    LET closers == {j \in (i + 1)..Len(s) : s[j] = "\""}
        close == CHOOSE j \in closers : \A k \in closers : j <= k
    IN  IF closers = {} THEN DecodeError
        ELSE IF \E k \in (i + 1)..(close - 1) : s[k] \in ControlChars
             THEN DecodeError
             ELSE Decoded(JStr(SubSeq(s, i + 1, close - 1)), close + 1)

\* an integer at i: an optional minus, then 0 or a run of digits not led by 0
ParseNumber(s, i) ==
    LET first == IF At(s, i) = "-" THEN i + 1 ELSE i
        end == IF At(s, first) = "0" THEN first + 1 ELSE SkipDigits(s, first)
    IN  IF At(s, first) \notin Digits THEN DecodeError
        ELSE Decoded(JNum(SubSeq(s, i, end - 1)), end)

ParseLiteral(s, i) ==
    LET rest == Drop(s, i - 1)
    IN  IF StartsWith(rest, <<"n", "u", "l", "l">>) THEN Decoded(PyNone, i + 4)
        ELSE IF StartsWith(rest, <<"t", "r", "u", "e">>)
             THEN Decoded(JBool(<<"t", "r", "u", "e">>), i + 4)
        ELSE IF StartsWith(rest, <<"f", "a", "l", "s", "e">>)
             THEN Decoded(JBool(<<"f", "a", "l", "s", "e">>), i + 5)
        ELSE DecodeError

\* d[k] = v on the pairs of a dict: a key already there keeps its place and
\* takes the new value
Put(pairs, k, v) ==
    IF \E i \in 1..Len(pairs) : pairs[i][1] = k
    THEN [i \in 1..Len(pairs) |-> IF pairs[i][1] = k THEN <<k, v>> ELSE pairs[i]]
    ELSE Append(pairs, <<k, v>>)

RECURSIVE ParseValue(_, _)
RECURSIVE ParseMembers(_, _, _)
RECURSIVE ParseElements(_, _, _)

\* the members of an object from the key whose opening quote is at i
ParseMembers(s, i, pairs) ==
    LET key == ParseString(s, i)
        colon == SkipWS(s, key.next)
        val == ParseValue(s, SkipWS(s, colon + 1))
        after == SkipWS(s, val.next)
        read == Put(pairs, key.val.v, val.val)
        nextKey == SkipWS(s, after + 1)
    IN  IF ~key.ok \/ At(s, colon) /= ":" THEN DecodeError
        ELSE IF ~val.ok THEN DecodeError
        ELSE IF At(s, after) = "}" THEN Decoded(JObj(read), after + 1)
        ELSE IF At(s, after) = "," /\ At(s, nextKey) = "\""
             THEN ParseMembers(s, nextKey, read)
        ELSE DecodeError

\* the elements of an array from the value at i
ParseElements(s, i, items) ==
    LET val == ParseValue(s, i)
        after == SkipWS(s, val.next)
        read == Append(items, val.val)
    IN  IF ~val.ok THEN DecodeError
        ELSE IF At(s, after) = "]" THEN Decoded(JArr(read), after + 1)
        ELSE IF At(s, after) = ","
             THEN ParseElements(s, SkipWS(s, after + 1), read)
        ELSE DecodeError

ParseValue(s, i) ==
    LET c == At(s, i)
        inner == SkipWS(s, i + 1)
    IN  IF c = "\"" THEN ParseString(s, i)
        ELSE IF c = "{"
             THEN IF At(s, inner) = "}" THEN Decoded(JObj(<<>>), inner + 1)
                  ELSE IF At(s, inner) = "\"" THEN ParseMembers(s, inner, <<>>)
                  ELSE DecodeError
        ELSE IF c = "["
             THEN IF At(s, inner) = "]" THEN Decoded(JArr(<<>>), inner + 1)
                  ELSE ParseElements(s, inner, <<>>)
        ELSE IF c \in Digits \cup {"-"} THEN ParseNumber(s, i)
        ELSE ParseLiteral(s, i)

\* json.loads: one value, whitespace around it, nothing after it
json_loads(s) ==
    LET val == ParseValue(s, SkipWS(s, 1))
    IN  IF val.ok /\ SkipWS(s, val.next) = Len(s) + 1 THEN val ELSE DecodeError

\* the dict operations used on a decoded object: a repeated key keeps its
\* last value
HasKey(obj, k) == \E i \in 1..Len(obj.v) : obj.v[i][1] = k
Get(obj, k) ==
    LET at == {i \in 1..Len(obj.v) : obj.v[i][1] = k}
    IN  obj.v[CHOOSE i \in at : \A j \in at : j <= i][2]

(***************************************************************************)
(* validate_structured_output, src/main.py:60-70.  The result is the pair  *)
(* (ok, msg); msg is the message's fixed text and the key it names.        *)
(***************************************************************************)
MoodKey == <<"m", "o", "o", "d">>
QuoteKey == <<"q", "u", "o", "t", "e">>
AuthorKey == <<"a", "u", "t", "h", "o", "r">>
ActionKey == <<"s", "u", "g", "g", "e", "s", "t", "e", "d", "_",
               "a", "c", "t", "i", "o", "n">>

required == <<MoodKey, QuoteKey, AuthorKey, ActionKey>>

NoKey == <<>>
Verdict(ok, text, key) == [ok |-> ok, text |-> text, key |-> key]

\* the loop of lines 65-69 from the i-th required key, checking only presence
RECURSIVE CheckKeysPresenceOnly(_, _)
CheckKeysPresenceOnly(obj, i) ==
    IF i > Len(required) THEN Verdict(TRUE, "OK", NoKey)
    ELSE IF ~HasKey(obj, required[i])
         THEN Verdict(FALSE, "Missing key: ", required[i])
         ELSE CheckKeysPresenceOnly(obj, i + 1)

\* the loop of lines 65-69 from the i-th required key
RECURSIVE CheckKeys(_, _)
CheckKeys(obj, i) ==
    IF i > Len(required) THEN Verdict(TRUE, "OK", NoKey)
    ELSE LET k == required[i]
         IN  IF ~HasKey(obj, k) THEN Verdict(FALSE, "Missing key: ", k)
             ELSE IF Get(obj, k).t /= "str" \/ strip(Get(obj, k).v) = <<>>
                  THEN Verdict(FALSE, "Invalid or empty value for key: ", k)
                  ELSE CheckKeys(obj, i + 1)

validate_structured_output(obj) ==
    IF obj.t /= "obj" THEN Verdict(FALSE, "Output is not a JSON object", NoKey)
    ELSE CheckKeys(obj, 1)

(***************************************************************************)
(* get_structured_or_function_call, src/main.py:120-178.                   *)
(***************************************************************************)
NoReturn == [t |-> "no return", v |-> <<>>]
NoFile == [t |-> "no file", v |-> <<>>]

Printed(head, text, arg) == [head |-> head, text |-> text, arg |-> arg]
NothingPrinted == Printed("", "", <<>>)
ParseErrorHead == "[Error] Could not parse JSON from model output:"
ValidationHead == "[Validation Failed] "
SavedHead == "[Saved] structured output -> "

\* lines 139-141: the prompt is the fixed instructions and the user's mood
Prompt(user_mood) == <<"system_instr", "User mood: ", user_mood, "Output JSON now:">>

\* lines 154-165 with the second json.loads outside any try
ParseReplyUncaught(raw) ==
    LET cleaned == strip_code_fences(raw)
        direct == json_loads(cleaned)
        candidate == extract_first_json(cleaned)
        second == json_loads(candidate.v)
    IN  IF direct.ok THEN [escaped |-> FALSE, parsed |-> direct.val]
        ELSE IF candidate.some /\ candidate.v /= <<>>
             THEN [escaped |-> ~second.ok, parsed |-> second.val]
             ELSE [escaped |-> FALSE, parsed |-> PyNone]

\* lines 154-165: parsed, and whether an exception left the block
ParseReply(raw) ==
    LET cleaned == strip_code_fences(raw)
        direct == json_loads(cleaned)
        candidate == extract_first_json(cleaned)
        second == json_loads(candidate.v)
    IN  IF direct.ok THEN [escaped |-> FALSE, parsed |-> direct.val]
        ELSE IF candidate.some /\ candidate.v /= <<>>
             THEN [escaped |-> FALSE,
                   parsed |-> IF second.ok THEN second.val ELSE PyNone]
             ELSE [escaped |-> FALSE, parsed |-> PyNone]

\* call_google_studio_structured, lines 80-115: it raises without an API key
\* (line 88) and when the request or the decoding of its response fails
\* (lines 107-108); otherwise it returns the reply text
Collaborator(api_key, reply) ==
    IF api_key = <<>> \/ reply.kind = "raise"
    THEN [raises |-> TRUE, raw |-> <<>>]
    ELSE [raises |-> FALSE, raw |-> reply.raw]

\* json.dump(obj, f, indent=2, ensure_ascii=False), line 74: the text written.
\* A newline and two spaces per level precede every item of a non-empty
\* array or object; the strings of the model need no escape.
NewlineIndent(level) == <<"\n">> \o [i \in 1..(2 * level) |-> " "]

RECURSIVE json_dumps(_, _)
RECURSIVE DumpItems(_, _, _)
RECURSIVE DumpPairs(_, _, _)

DumpItems(items, i, level) ==
    NewlineIndent(level) \o json_dumps(items[i], level)
        \o (IF i = Len(items) THEN <<>>
            ELSE <<",">> \o DumpItems(items, i + 1, level))

DumpPairs(pairs, i, level) ==
    NewlineIndent(level) \o <<"\"">> \o pairs[i][1] \o <<"\"", ":", " ">>
        \o json_dumps(pairs[i][2], level)
        \o (IF i = Len(pairs) THEN <<>>
            ELSE <<",">> \o DumpPairs(pairs, i + 1, level))

json_dumps(val, level) ==
    IF val.t = "str" THEN <<"\"">> \o val.v \o <<"\"">>
    ELSE IF val.t = "num" THEN (IF val.v = <<"-", "0">> THEN <<"0">> ELSE val.v)
    ELSE IF val.t = "bool" THEN val.v
    ELSE IF val.t = "null" THEN <<"n", "u", "l", "l">>
    ELSE IF val.t = "arr"
         THEN IF val.v = <<>> THEN <<"[", "]">>
              ELSE <<"[">> \o DumpItems(val.v, 1, level + 1)
                       \o NewlineIndent(level) \o <<"]">>
    ELSE IF val.v = <<>> THEN <<"{", "}">>
         ELSE <<"{">> \o DumpPairs(val.v, 1, level + 1)
                  \o NewlineIndent(level) \o <<"}">>

\* lines 72-75: last_output.json after the call
save_last_output(obj) == [t |-> "file", v |-> json_dumps(obj, 0)]

\* lines 167-178 with the record saved before it is validated
AfterParseSavedFirst(raw, parsed, file) ==
    LET verdict == validate_structured_output(parsed)
    IN  IF parsed = PyNone
        THEN [result |-> PyNone, msg |-> Printed(ParseErrorHead, "", raw),
              file |-> file]
        ELSE IF ~verdict.ok
        THEN [result |-> PyNone,
              msg |-> Printed(ValidationHead, verdict.text, verdict.key),
              file |-> save_last_output(parsed)]
        ELSE [result |-> parsed,
              msg |-> Printed(SavedHead, "last_output.json", <<>>),
              file |-> save_last_output(parsed)]

\* lines 167-178: what is returned, printed and left in last_output.json
AfterParse(raw, parsed, file) ==
    LET verdict == validate_structured_output(parsed)
    IN  IF parsed = PyNone
        THEN [result |-> PyNone, msg |-> Printed(ParseErrorHead, "", raw),
              file |-> file]
        ELSE IF ~verdict.ok
        THEN [result |-> PyNone,
              msg |-> Printed(ValidationHead, verdict.text, verdict.key),
              file |-> file]
        ELSE [result |-> parsed,
              msg |-> Printed(SavedHead, "last_output.json", <<>>),
              file |-> save_last_output(parsed)]

(***************************************************************************)
(* similar and auto_judge, src/evaluate.py:28-31 and 75-89.  A score is    *)
(* the fraction num/den.                                                   *)
(***************************************************************************)
Fraction(num, den) == [num |-> num, den |-> den]

\* SequenceMatcher.find_longest_match on a[alo..ahi] and b[blo..bhi], no
\* element being junk: the longest common block, of those the one that
\* starts earliest in a, of those the one that starts earliest in b
LongestMatch(a, b, alo, ahi, blo, bhi) ==
    LET blocks == {blk \in (alo..ahi) \X (blo..bhi) \X (1..(ahi - alo + 1)) :
                      /\ blk[1] + blk[3] - 1 <= ahi
                      /\ blk[2] + blk[3] - 1 <= bhi
                      /\ SubSeq(a, blk[1], blk[1] + blk[3] - 1)
                            = SubSeq(b, blk[2], blk[2] + blk[3] - 1)}
        Better(x, y) ==
            \/ x[3] > y[3]
            \/ x[3] = y[3] /\ x[1] < y[1]
            \/ x[3] = y[3] /\ x[1] = y[1] /\ x[2] <= y[2]
    IN  IF blocks = {} THEN <<alo, blo, 0>>
        ELSE CHOOSE x \in blocks : \A y \in blocks : Better(x, y)

\* SequenceMatcher.get_matching_blocks: the characters in the longest block
\* and in the blocks found, in turn, left and right of it
RECURSIVE MatchedChars(_, _, _, _, _, _)
MatchedChars(a, b, alo, ahi, blo, bhi) ==
    IF alo > ahi \/ blo > bhi THEN 0
    ELSE LET blk == LongestMatch(a, b, alo, ahi, blo, bhi)
         IN  IF blk[3] = 0 THEN 0
             ELSE blk[3]
                  + MatchedChars(a, b, alo, blk[1] - 1, blo, blk[2] - 1)
                  + MatchedChars(a, b, blk[1] + blk[3], ahi, blk[2] + blk[3], bhi)

\* SequenceMatcher(None, a, b).ratio(): 2*M/T, and 1 when both are empty
ratio(a, b) ==
    IF Len(a) + Len(b) = 0 THEN Fraction(1, 1)
    ELSE Fraction(2 * MatchedChars(a, b, 1, Len(a), 1, Len(b)), Len(a) + Len(b))

\* Python's truth value of a decoded value
Falsy(value) ==
    \/ value = PyNone
    \/ value.t \in {"str", "arr", "obj"} /\ value.v = <<>>
    \/ value.t = "num" /\ value.v = <<"0">>
    \/ value.t = "bool" /\ value.v = <<"f", "a", "l", "s", "e">>

\* (x or ""): the empty string for a falsy x
OrEmpty(value) == IF Falsy(value) THEN JStr(<<>>) ELSE value

\* similar without the defaults of lines 29-30
SimilarNoDefault(a, b) ==
    IF a.t /= "str" \/ b.t /= "str"
    THEN [raised |-> TRUE, score |-> Fraction(0, 1)]
    ELSE [raised |-> FALSE, score |-> ratio(strip(lower(a.v)), strip(lower(b.v)))]

\* similar: a value that is neither falsy nor a str has no lower(), which
\* raises AttributeError
similar(a, b) ==
    LET x == OrEmpty(a)
        y == OrEmpty(b)
    IN  IF x.t /= "str" \/ y.t /= "str"
        THEN [raised |-> TRUE, score |-> Fraction(0, 1)]
        ELSE [raised |-> FALSE, score |-> ratio(strip(lower(x.v)), strip(lower(y.v)))]

\* dict.get(key, "")
GetOrEmpty(obj, key) == IF HasKey(obj, key) THEN Get(obj, key) ELSE JStr(<<>>)

\* the weights of lines 83-86, in hundredths, in the order mood, quote,
\* author, suggested_action
Weights == <<25, 45, 15, 15>>

\* the sum of lines 82-87 with the quote weighted 0.40
OverallQuote40(scores) ==
    LET den == scores[1].den * scores[2].den * scores[3].den * scores[4].den
        Term(i, w) == w * scores[i].num * (den \div scores[i].den)
    IN  Fraction(Term(1, 25) + Term(2, 40) + Term(3, 15) + Term(4, 15), 100 * den)

\* the sum of lines 82-87 over the four field scores
Overall(scores) ==
    LET den == scores[1].den * scores[2].den * scores[3].den * scores[4].den
        Term(i) == Weights[i] * scores[i].num * (den \div scores[i].den)
    IN  Fraction(Term(1) + Term(2) + Term(3) + Term(4), 100 * den)

\* auto_judge: the four similarities, then their weighted sum; an exception
\* of similar leaves the function
auto_judge(expected, actual) ==
    LET field == [i \in 1..4 |->
                    similar(GetOrEmpty(expected, required[i]),
                            GetOrEmpty(actual, required[i]))]
        scores == [i \in 1..4 |-> field[i].score]
    IN  IF \E i \in 1..4 : field[i].raised
        THEN [raised |-> TRUE, scores |-> scores, overall_score |-> Fraction(0, 1)]
        ELSE [raised |-> FALSE, scores |-> scores, overall_score |-> Overall(scores)]

(***************************************************************************)
(* mock_model, src/evaluate.py:33-73.  top_k is [given, v] and top_p is    *)
(* [given, num, den], not given standing for None; random.sample and       *)
(* random.choice may return any of their outcomes.                         *)
(***************************************************************************)
\* line 40: (user_input or "").lower()
InputLower(user_input) == lower(OrEmpty(user_input).v)

\* line 42: the entries whose lower-cased mood occurs in the lower-cased input
Matches(user_input, quotes_db) ==
    SelectSeq(quotes_db,
              LAMBDA q : Contains(InputLower(user_input), lower(GetOrEmpty(q, MoodKey).v)))

\* line 45 without the fallback to the whole database
CandidatePoolMatchesOnly(user_input, quotes_db) == Matches(user_input, quotes_db)

\* line 45
CandidatePool(user_input, quotes_db) ==
    IF Matches(user_input, quotes_db) /= <<>>
    THEN Matches(user_input, quotes_db)
    ELSE quotes_db

\* random.sample(pool, k): k entries at distinct positions, in any order
Samples(pool, k) ==
    {[i \in 1..k |-> pool[pick[i]]] :
        pick \in {f \in [1..k -> 1..Len(pool)] :
                     \A i, j \in 1..k : i /= j => f[i] /= f[j]}}

\* lines 48-50 without the test top_k > 0
AfterTopKAnyBound(pool, top_k) ==
    IF top_k.given /\ Len(pool) > top_k.v
    THEN Samples(pool, top_k.v)
    ELSE {pool}

\* lines 48-50: the pools top_k may leave
AfterTopK(pool, top_k) ==
    IF top_k.given /\ top_k.v > 0 /\ Len(pool) > top_k.v
    THEN Samples(pool, top_k.v)
    ELSE {pool}

\* ceil(len * top_p) over the integers
CeilOfProduct(len, top_p) == (len * top_p.num + top_p.den - 1) \div top_p.den

\* lines 53-57 with the product rounded down and no minimum of one
AfterTopPFloor(pool, top_p) ==
    IF top_p.given /\ 0 < top_p.num /\ top_p.num < top_p.den /\ pool /= <<>>
    THEN SubSeq(pool, 1, (Len(pool) * top_p.num) \div top_p.den)
    ELSE pool

\* lines 53-57
AfterTopP(pool, top_p) ==
    IF top_p.given /\ 0 < top_p.num /\ top_p.num < top_p.den /\ pool /= <<>>
    THEN LET keep == IF CeilOfProduct(Len(pool), top_p) > 1
                     THEN CeilOfProduct(Len(pool), top_p)
                     ELSE 1
         IN  SubSeq(pool, 1, keep)
    ELSE pool

\* lines 61-66
Fallback(user_input) ==
    JObj(<< <<MoodKey, user_input>>,
            <<QuoteKey, JStr(<<"Keep going, you're doing better than you think.">>)>>,
            <<AuthorKey, JStr(<<"AI Coach">>)>>,
            <<ActionKey, JStr(<<"Pause and breathe.">>)>> >>)

\* lines 60-73 with the first entry returned only below temperature 0
SelectedBelowZero(pool, temperature, user_input) ==
    IF pool = <<>> THEN {Fallback(user_input)}
    ELSE IF temperature < 0 THEN {pool[1]}
    ELSE {pool[i] : i \in 1..Len(pool)}

\* lines 60-73: the records that may be returned
Selected(pool, temperature, user_input) ==
    IF pool = <<>> THEN {Fallback(user_input)}
    ELSE IF temperature <= 0 THEN {pool[1]}
    ELSE {pool[i] : i \in 1..Len(pool)}

(***************************************************************************)
(* The helpers applied to given arguments: inp holds the arguments, the    *)
(* step stores what the helper returns in out.                             *)
(***************************************************************************)
Idle == [calls |-> 0, prompts |-> <<>>, result |-> NoReturn, msg |-> NothingPrinted,
         raised |-> FALSE, last_output |-> NoFile, n |-> 0]

ExtractorIdle ==
    /\ calls = Idle.calls
    /\ prompts = Idle.prompts
    /\ result = Idle.result
    /\ msg = Idle.msg
    /\ raised = Idle.raised
    /\ last_output = Idle.last_output
    /\ n = Idle.n

\* ---- extract_first_json on every text over ScanChars up to MaxLen ----
ScanChars == {"{", "}", "a", "\""}

InitScan ==
    /\ inp \in [text : Texts(ScanChars, MaxLen)]
    /\ out = NoText
    /\ fn = "none"
    /\ ExtractorIdle

ExtractFirstJson ==
    /\ fn = "none"
    /\ out' = extract_first_json(inp.text)
    /\ fn' = "extract_first_json"
    /\ UNCHANGED <<inp, extractorVars>>

NextScan == ExtractFirstJson

SpecScan == InitScan /\ [][NextScan]_vars

\* ---- strip_code_fences on texts assembled from fence parts ----
Tags == {<<>>, JsonTag, <<"J", "s", "O", "N">>, <<"p", "y">>}
InteriorChars == {"a", " ", BQ, "{"}
Interiors == {t \in Texts(InteriorChars, MaxInterior) : strip(t) = t}

FencedParts ==
    [ws1 : {<<>>, <<" ">>}, lead : {<<>>, Fence}, tag : Tags,
     ws2 : {<<>>, <<"\n">>}, interior : Interiors, ws3 : {<<>>, <<"\n">>},
     trail : {<<>>, Fence}, ws4 : {<<>>, <<" ">>}]

Assemble(p) ==
    Concat(<<p.ws1, p.lead, p.tag, p.ws2, p.interior, p.ws3, p.trail, p.ws4>>)

InitFence ==
    /\ \E p \in FencedParts :
          /\ p.lead = <<>> => (p.tag = <<>> /\ p.ws2 = <<>>)
          /\ p.trail = <<>> => p.ws3 = <<>>
          /\ inp = [parts |-> p, text |-> Assemble(p)]
    /\ out = <<>>
    /\ fn = "none"
    /\ ExtractorIdle

StripCodeFences ==
    /\ fn = "none"
    /\ out' = strip_code_fences(inp.text)
    /\ fn' = "strip_code_fences"
    /\ UNCHANGED <<inp, extractorVars>>

\* the helper applied to its own output
StripCodeFencesAgain ==
    /\ fn = "strip_code_fences"
    /\ inp' = [inp EXCEPT !.text = out]
    /\ out' = strip_code_fences(out)
    /\ fn' = "strip_code_fences twice"
    /\ UNCHANGED extractorVars

NextFence == StripCodeFences \/ StripCodeFencesAgain

SpecFence == InitFence /\ [][NextFence]_vars

(***************************************************************************)
(* C5: extract_first_json returns absent for a text with no "{"; otherwise *)
(* it returns the substring from the first "{" through the first "}" at    *)
(* which the braces opened since that "{" are all closed, and absent when  *)
(* there is no such "}".  A returned substring starts with "{", ends with  *)
(* "}" and holds as many "{" as "}".                                       *)
(***************************************************************************)
FirstBalancedObject(text) ==
    LET opens == {i \in 1..Len(text) : text[i] = "{"}
        start == CHOOSE i \in opens : \A j \in opens : i <= j
        closers == {e \in start..Len(text) :
                       /\ text[e] = "}"
                       /\ Count(SubSeq(text, start, e), "{")
                            = Count(SubSeq(text, start, e), "}")}
        end == CHOOSE e \in closers : \A f \in closers : e <= f
    IN  IF opens = {} \/ closers = {} THEN NoText
        ELSE SomeText(SubSeq(text, start, end))

C5_FirstBalancedObject ==
    fn = "extract_first_json" =>
        /\ out = FirstBalancedObject(inp.text)
        /\ out.some =>
              /\ Head(out.v) = "{"
              /\ out.v[Len(out.v)] = "}"
              /\ Count(out.v, "{") = Count(out.v, "}")

\* a nested object cut out of surrounding text
C5_Witness ==
    /\ fn = "extract_first_json"
    /\ out.some
    /\ Count(out.v, "{") = 2
    /\ Len(out.v) < Len(inp.text)
    /\ Head(inp.text) /= "{"

(***************************************************************************)
(* C7 (as amended): of a text fenced on both sides, whose opening fence is *)
(* followed by no tag or by the tag json in any letter case,               *)
(* strip_code_fences returns the interior unaltered; a text that, trimmed, *)
(* neither starts nor ends with a fence is returned trimmed; and applying  *)
(* the helper to an output that holds no fence changes nothing.            *)
(***************************************************************************)
FencedBothSides == inp.parts.lead = Fence /\ inp.parts.trail = Fence

C7_JsonFenceStripped ==
    /\ fn = "strip_code_fences" =>
          /\ (FencedBothSides /\ lower(inp.parts.tag) \in {<<>>, JsonTag})
                => out = inp.parts.interior
          /\ (~StartsWith(strip(inp.text), Fence) /\ ~EndsWith(strip(inp.text), Fence))
                => out = strip(inp.text)
    /\ (fn = "strip_code_fences twice" /\ ~Contains(inp.text, Fence))
          => out = inp.text

\* a fenced text tagged JsON, with whitespace around the interior
C7_Witness ==
    /\ fn = "strip_code_fences"
    /\ FencedBothSides
    /\ inp.parts.tag = <<"J", "s", "O", "N">>
    /\ inp.parts.ws2 /= <<>>
    /\ inp.parts.ws3 /= <<>>
    /\ inp.parts.interior /= <<>>
    /\ out = inp.parts.interior

(***************************************************************************)
(* C7 as claimed: whatever the language tag (a tag ends at the whitespace  *)
(* after it), the fences and the tag are removed and the interior is       *)
(* returned unaltered.                                                     *)
(***************************************************************************)
C7_AnyTagStripped ==
    (/\ fn = "strip_code_fences"
     /\ FencedBothSides
     /\ inp.parts.tag /= <<>> => inp.parts.ws2 /= <<>>)
        => out = inp.parts.interior

\* ---- validate_structured_output on decoded values ----
Absent == [t |-> "absent", v |-> <<>>]

FieldOptions ==
    {Absent, PyNone, JNum(<<"1">>), JArr(<<>>), JStr(<<>>), JStr(<<" ">>),
     JStr(<<"a">>), JStr(<<" ", "a", " ">>)}

\* the dict holding, for each of the keys, the value chosen for it, if any
RECURSIVE PairsOf(_, _, _)
PairsOf(keys, fields, i) ==
    IF i > Len(keys) THEN <<>>
    ELSE (IF fields[i] = Absent THEN <<>> ELSE << <<keys[i], fields[i]>> >>)
            \o PairsOf(keys, fields, i + 1)

DictOf(fields) == JObj(PairsOf(required, fields, 1))

InitValidate ==
    /\ \/ \E fields \in [1..4 -> FieldOptions], extra \in BOOLEAN :
             inp = [fields |-> fields,
                    obj |-> IF extra
                            THEN JObj(Append(DictOf(fields).v, <<<<"x">>, JStr(<<"a">>)>>))
                            ELSE DictOf(fields)]
       \/ \E value \in {PyNone, JNum(<<"1">>), JStr(<<"a">>), JArr(<<>>)} :
             inp = [fields |-> [i \in 1..4 |-> Absent], obj |-> value]
    /\ out = Verdict(FALSE, "", NoKey)
    /\ fn = "none"
    /\ ExtractorIdle

ValidateStructuredOutput ==
    /\ fn = "none"
    /\ out' = validate_structured_output(inp.obj)
    /\ fn' = "validate_structured_output"
    /\ UNCHANGED <<inp, extractorVars>>

NextValidate == ValidateStructuredOutput

SpecValidate == InitValidate /\ [][NextValidate]_vars

(***************************************************************************)
(* C4: a decoded object passes validation exactly when each of mood,       *)
(* quote, author, suggested_action is present and holds a string that is   *)
(* not empty once trimmed; otherwise the failure names the first key, in   *)
(* that order, that is missing or invalid.                                 *)
(***************************************************************************)
GoodField(value) == value.t = "str" /\ \E i \in 1..Len(value.v) : value.v[i] \notin WS

C4_AllOrNothingOrdered ==
    (fn = "validate_structured_output" /\ inp.obj.t = "obj") =>
        LET bad == {i \in 1..4 : ~GoodField(inp.fields[i])}
            first == CHOOSE i \in bad : \A j \in bad : i <= j
        IN  /\ out.ok <=> bad = {}
            /\ bad /= {} =>
                  /\ out.key = required[first]
                  /\ out.text = IF inp.fields[first] = Absent
                                THEN "Missing key: "
                                ELSE "Invalid or empty value for key: "

\* an object missing only suggested_action fails naming suggested_action
C4_Witness ==
    /\ fn = "validate_structured_output"
    /\ \A i \in 1..3 : GoodField(inp.fields[i])
    /\ inp.fields[4] = Absent
    /\ ~out.ok
    /\ out.key = ActionKey

\* ---- get_structured_or_function_call on the collaborator's replies ----
Quoted(chars) == <<"\"">> \o chars \o <<"\"">>
Member(key, valueText) == Quoted(key) \o <<":">> \o valueText

RECURSIVE Joined(_)
Joined(parts) ==
    IF parts = <<>> THEN <<>>
    ELSE IF Len(parts) = 1 THEN parts[1]
    ELSE parts[1] \o <<",">> \o Joined(Tail(parts))

ObjectText(members) == <<"{">> \o Joined(members) \o <<"}">>

\* the text of a record with the given value texts
RecordText(mood, quote, author, action) ==
    ObjectText(<<Member(MoodKey, mood), Member(QuoteKey, quote),
                 Member(AuthorKey, author), Member(ActionKey, action)>>)

TextA == Quoted(<<"a">>)
TextB == Quoted(<<"b">>)
NullText == <<"n", "u", "l", "l">>

ReplyBodies ==
    {RecordText(TextA, TextA, TextA, TextA),
     RecordText(TextA, TextB, TextA, TextA),
     RecordText(TextA, Quoted(<<"}">>), TextA, TextA),
     ObjectText(<<Member(MoodKey, TextA), Member(QuoteKey, TextA),
                  Member(AuthorKey, TextA)>>),
     RecordText(Quoted(<<>>), TextA, TextA, TextA),
     RecordText(TextA, Quoted(<<" ">>), TextA, TextA),
     RecordText(TextA, TextA, <<"1">>, TextA),
     RecordText(NullText, TextA, TextA, TextA),
     ObjectText(<<Member(MoodKey, TextA), Member(QuoteKey, TextA),
                  Member(<<"x">>, <<"[", "1", ",", "{", "}", ",", "[", "]", "]">>),
                  Member(AuthorKey, TextA), Member(ActionKey, TextA),
                  Member(<<"y">>, <<"{">> \o Member(<<"z">>, NullText) \o <<"}">>)>>),
     ObjectText(<<Member(MoodKey, Quoted(<<>>)), Member(QuoteKey, TextA),
                  Member(AuthorKey, TextA), Member(ActionKey, TextA),
                  Member(MoodKey, TextB)>>),
     ObjectText(<<Member(<<"e", "r", "r", "o", "r">>, TextA)>>),
     <<"[", "1", "]">>,
     <<"1">>,
     TextA,
     NullText,
     <<"t", "r", "u", "e">>,
     <<"{">> \o Member(MoodKey, TextA),
     <<"a">>,
     <<>>}

Wrapped(body) ==
    {body,
     Fence \o JsonTag \o <<"\n">> \o body \o <<"\n">> \o Fence,
     Fence \o <<"p", "y", "\n">> \o body \o <<"\n">> \o Fence,
     <<"a", " ">> \o body \o <<" ", "a">>}

Replies ==
    {[kind |-> "raise", raw |-> <<>>]}
        \cup {[kind |-> "text", raw |-> raw] :
                raw \in UNION {Wrapped(body) : body \in ReplyBodies}}

\* without an API key the collaborator raises before any request is sent
\* (line 88), so no reply text exists
RepliesWith(api_key) ==
    IF api_key = <<>> THEN {[kind |-> "raise", raw |-> <<>>]} ELSE Replies

UserMoods == {<<"a">>, <<"b">>}
ApiKeys == {<<>>, <<"k">>}

InitMain ==
    /\ inp = [user_mood |-> <<>>, api_key |-> <<>>,
              reply |-> [kind |-> "raise", raw |-> <<>>]]
    /\ out = <<>>
    /\ fn = "none"
    /\ ExtractorIdle

\* one call of get_structured_or_function_call: the collaborator is called
\* once (line 143); its exception leaves the function; its reply is cleaned,
\* decoded, validated and, when valid, saved and returned.  answer, parse
\* and end are each the one value of the call they name.
GetStructuredOrFunctionCall ==
    /\ n < MaxRuns
    /\ \E user_mood \in UserMoods, api_key \in ApiKeys :
       \E reply \in RepliesWith(api_key) :
       \E answer \in {Collaborator(api_key, reply)} :
       \E parse \in {ParseReply(answer.raw)} :
       \E end \in {AfterParse(answer.raw, parse.parsed, last_output)} :
          /\ inp' = [user_mood |-> user_mood, api_key |-> api_key, reply |-> reply]
          /\ calls' = 1
          /\ prompts' = <<Prompt(user_mood)>>
          /\ IF answer.raises \/ parse.escaped
             THEN /\ raised' = TRUE
                  /\ result' = NoReturn
                  /\ msg' = NothingPrinted
                  /\ UNCHANGED last_output
             ELSE /\ raised' = FALSE
                  /\ result' = end.result
                  /\ msg' = end.msg
                  /\ last_output' = end.file
    /\ n' = n + 1
    /\ fn' = "get_structured_or_function_call"
    /\ UNCHANGED out

NextMain == GetStructuredOrFunctionCall

SpecMain == InitMain /\ [][NextMain]_vars

\* the collaborator returned a text in the last extraction
GotReply ==
    /\ fn = "get_structured_or_function_call"
    /\ inp.api_key /= <<>>
    /\ inp.reply.kind = "text"

\* what json.loads makes of the cleaned reply, and of the substring cut from it
DirectParse == json_loads(strip_code_fences(inp.reply.raw))
SubstringParse ==
    LET candidate == extract_first_json(strip_code_fences(inp.reply.raw))
    IN  IF candidate.some THEN json_loads(candidate.v) ELSE DecodeError

(***************************************************************************)
(* C1 as claimed: when the reply fails to parse or validate, the           *)
(* collaborator is called a second time with the identical prompt; with    *)
(* malformed text on every call it is called exactly 2 times and the       *)
(* result is absent.                                                       *)
(***************************************************************************)
C1_RetriesOnce ==
    (GotReply /\ result = PyNone) =>
        /\ calls = 2
        /\ Len(prompts) = 2
        /\ prompts[1] = prompts[2]

C3_NonObjectIsParseError ==
    GotReply =>
        /\ (DirectParse.ok /\ DirectParse.val.t /= "obj") => msg.head = ParseErrorHead
        /\ msg.head = ValidationHead =>
              \/ DirectParse.ok /\ DirectParse.val.t = "obj"
              \/ ~DirectParse.ok /\ SubstringParse.ok /\ SubstringParse.val.t = "obj"

\* ---- a JSON object embedded in prose: the cut of line 160, the parse of
\* lines 154-165 ----
StringValues == {<<"a">>, <<"{">>, <<"}">>, <<"{", "}">>, <<"}", "{">>}
Leads == {<<>>, <<"f", "o", "o", " ">>, <<"a", "}", " ">>}
Trails == {<<>>, <<" ", "b", "a", "r">>, <<" ", "}">>, <<" ", "{">>}

\* the embedded objects: a record whose mood and quote vary, with or without
\* a nested object under one more key
EmbeddedObjects ==
    {ObjectText(<<Member(MoodKey, Quoted(m)), Member(QuoteKey, Quoted(q)),
                  Member(AuthorKey, TextA), Member(ActionKey, TextA)>> \o extra) :
        m \in StringValues, q \in StringValues,
        extra \in {<<>>, <<Member(<<"x">>, ObjectText(<<Member(<<"y">>, TextA)>>))>>}}

InitEmbed ==
    /\ \E lead \in Leads, object \in EmbeddedObjects, trail \in Trails :
          inp = [lead |-> lead, object |-> object, trail |-> trail,
                 text |-> lead \o object \o trail]
    /\ out = [candidate |-> NoText, parsed |-> PyNone]
    /\ fn = "none"
    /\ ExtractorIdle

ExtractAndParse ==
    /\ fn = "none"
    /\ out' = [candidate |-> extract_first_json(inp.text),
               parsed |-> ParseReply(inp.text).parsed]
    /\ fn' = "parse"
    /\ UNCHANGED <<inp, extractorVars>>

NextEmbed == ExtractAndParse

SpecEmbed == InitEmbed /\ [][NextEmbed]_vars

(***************************************************************************)
(* C6 as claimed: for a well-formed JSON object embedded between leading   *)
(* prose without "{" and trailing prose, extract_first_json returns        *)
(* exactly the object's substring and the parse yields the object, also    *)
(* when string values of the object hold "{" or "}".                       *)
(***************************************************************************)
C6_EmbeddedObjectRecovered ==
    fn = "parse" =>
        /\ json_loads(inp.object).ok
        /\ out.candidate = SomeText(inp.object)
        /\ out.parsed = json_loads(inp.object).val

\* ---- auto_judge on pairs of records ----
MoodValues ==
    {Absent, PyNone, JNum(<<"1">>), JStr(<<"A", " ">>)}
        \cup {JStr(t) : t \in Texts({"a", "b"}, MaxField)}

ExpectedFields ==
    MoodValues \X {Absent, JStr(<<"a">>), JStr(<<"b">>)}
        \X {Absent, PyNone, JStr(<<"a">>)} \X {Absent, JStr(<<"a">>)}

ActualFields ==
    MoodValues \X {Absent, JStr(<<"a">>), JStr(<<"b">>)}
        \X {Absent, JStr(<<"a">>)} \X {Absent, JStr(<<"a">>), JStr(<<"b">>)}

InitScore ==
    /\ \E e \in ExpectedFields, a \in ActualFields :
          inp = [expected_fields |-> e, actual_fields |-> a,
                 expected |-> DictOf(e), actual |-> DictOf(a)]
    /\ out = [raised |-> FALSE, scores |-> <<>>, overall_score |-> Fraction(0, 1)]
    /\ fn = "none"
    /\ ExtractorIdle

AutoJudge ==
    /\ fn = "none"
    /\ out' = auto_judge(inp.expected, inp.actual)
    /\ fn' = "auto_judge"
    /\ UNCHANGED <<inp, extractorVars>>

NextScore == AutoJudge

SpecScore == InitScore /\ [][NextScore]_vars

IsOne(f) == f.num = f.den
IsZero(f) == f.num = 0

(***************************************************************************)
(* C8: overall_score is 0.25*mood_score + 0.45*quote_score +               *)
(* 0.15*author_score + 0.15*action_score; the weights sum to 1; it lies in *)
(* [0,1], is 1 when the four field scores are 1 and 0 when they are 0.     *)
(***************************************************************************)
C8_WeightedSum ==
    (fn = "auto_judge" /\ ~out.raised) =>
        LET sc == out.scores
            all == out.overall_score
            den == sc[1].den * sc[2].den * sc[3].den * sc[4].den
        IN  /\ \A i \in 1..4 : sc[i].den > 0 /\ 0 <= sc[i].num /\ sc[i].num <= sc[i].den
            /\ all.den > 0
            /\ 100 * all.num * den
                 = all.den * (25 * sc[1].num * sc[2].den * sc[3].den * sc[4].den
                              + 45 * sc[1].den * sc[2].num * sc[3].den * sc[4].den
                              + 15 * sc[1].den * sc[2].den * sc[3].num * sc[4].den
                              + 15 * sc[1].den * sc[2].den * sc[3].den * sc[4].num)
            /\ Weights[1] + Weights[2] + Weights[3] + Weights[4] = 100
            /\ 0 <= all.num /\ all.num <= all.den
            /\ (\A i \in 1..4 : IsOne(sc[i])) => IsOne(all)
            /\ (\A i \in 1..4 : IsZero(sc[i])) => IsZero(all)

\* four equal non-empty fields, scored 1 each and 1 overall
C8_Witness ==
    /\ fn = "auto_judge"
    /\ ~out.raised
    /\ \A i \in 1..4 : inp.expected_fields[i].t = "str" /\ inp.expected_fields[i].v /= <<>>
    /\ \A i \in 1..4 : IsOne(out.scores[i])
    /\ IsOne(out.overall_score)

(***************************************************************************)
(* C9: a pair of records whose fields are strings, null or absent is       *)
(* scored without an exception, each absent or null field counting as the  *)
(* empty string; a field absent on both sides scores 1, and two records    *)
(* with no field score 1 overall.                                          *)
(***************************************************************************)
AsText(value) == IF value.t = "str" THEN value.v ELSE <<>>
Missing(value) == value \in {Absent, PyNone}

C9_MissingFieldsScored ==
    (/\ fn = "auto_judge"
     /\ \A i \in 1..4 : inp.expected_fields[i].t \in {"absent", "null", "str"}
     /\ \A i \in 1..4 : inp.actual_fields[i].t \in {"absent", "null", "str"})
        => /\ ~out.raised
           /\ \A i \in 1..4 :
                 /\ out.scores[i] = ratio(strip(lower(AsText(inp.expected_fields[i]))),
                                          strip(lower(AsText(inp.actual_fields[i]))))
                 /\ (Missing(inp.expected_fields[i]) /\ Missing(inp.actual_fields[i]))
                       => IsOne(out.scores[i])
           /\ (\A i \in 1..4 : Missing(inp.expected_fields[i]) /\ Missing(inp.actual_fields[i]))
                 => IsOne(out.overall_score)

\* a null mood against an absent one, an absent quote against a present one
C9_Witness ==
    /\ fn = "auto_judge"
    /\ inp.expected_fields[1] = PyNone
    /\ inp.actual_fields[1] = Absent
    /\ inp.expected_fields[2] = Absent
    /\ inp.actual_fields[2].t = "str"
    /\ ~out.raised
    /\ IsOne(out.scores[1])
    /\ IsZero(out.scores[2])

\* ---- mock_model on small quote databases ----
DbMoods == {Absent, JStr(<<"a">>), JStr(<<"A">>), JStr(<<"b">>)}
UserInputs == {PyNone, JStr(<<"a">>), JStr(<<"A", "b">>), JStr(<<"y">>)}
QuoteIds == <<"q1", "q2", "q3", "q4", "q5">>

\* the entry at position i of a database: its mood, if any, and a quote of
\* its own
Entry(mood, i) ==
    JObj((IF mood = Absent THEN <<>> ELSE << <<MoodKey, mood>> >>)
            \o << <<QuoteKey, JStr(<<QuoteIds[i]>>)>> >>)

Databases ==
    UNION {{[i \in 1..len |-> Entry(moods[i], i)] : moods \in [1..len -> DbMoods]} :
              len \in 0..MaxDb}

NotGivenK == [given |-> FALSE, v |-> 0]
TopKs == {NotGivenK} \cup {[given |-> TRUE, v |-> k] : k \in 0..2}
NotGivenP == [given |-> FALSE, num |-> 0, den |-> 1]
TopPs ==
    {NotGivenP} \cup {[given |-> TRUE, num |-> p[1], den |-> p[2]] :
                        p \in {<<0, 1>>, <<1, 2>>, <<3, 4>>, <<1, 1>>}}
Temperatures == {-1, 0, 1}

InitMock ==
    /\ inp \in [user_input : UserInputs, quotes_db : Databases,
                temperature : Temperatures, top_k : TopKs, top_p : TopPs]
    /\ out = [pool |-> <<>>, sampled |-> <<>>, final |-> <<>>, ret |-> PyNone]
    /\ fn = "none"
    /\ ExtractorIdle

\* one call of mock_model; out keeps the candidate pool of line 45, the pool
\* after top_k, the pool after top_p and the record returned
MockModel ==
    /\ fn = "none"
    /\ LET pool == CandidatePool(inp.user_input, inp.quotes_db)
       IN  \E sampled \in AfterTopK(pool, inp.top_k) :
              LET final == AfterTopP(sampled, inp.top_p)
              IN  \E ret \in Selected(final, inp.temperature, inp.user_input) :
                     out' = [pool |-> pool, sampled |-> sampled,
                             final |-> final, ret |-> ret]
    /\ fn' = "mock_model"
    /\ UNCHANGED <<inp, extractorVars>>

NextMock == MockModel

SpecMock == InitMock /\ [][NextMock]_vars

\* the text of a mood or an input: empty when it is absent or None
TextOf(value) == IF value.t = "str" THEN value.v ELSE <<>>
MoodAt(i) == TextOf(GetOrEmpty(inp.quotes_db[i], MoodKey))

\* the entries at the given positions, in database order
RECURSIVE EntriesAt(_, _)
EntriesAt(positions, i) ==
    IF i > Len(inp.quotes_db) THEN <<>>
    ELSE (IF i \in positions THEN <<inp.quotes_db[i]>> ELSE <<>>)
            \o EntriesAt(positions, i + 1)

(***************************************************************************)
(* C10 (as amended): the candidate pool before top_k and top_p is the list *)
(* in database order of the entries whose lower-cased mood is a substring  *)
(* of the lower-cased input, when there is one, and the whole database     *)
(* otherwise; when some entry matches, the record returned is a matching   *)
(* entry, whatever temperature, top_k and top_p.                           *)
(***************************************************************************)
C10_MatchesBeforeFallback ==
    fn = "mock_model" =>
        LET hits == {i \in 1..Len(inp.quotes_db) :
                        Contains(lower(TextOf(inp.user_input)), lower(MoodAt(i)))}
        IN  /\ out.pool = IF hits /= {} THEN EntriesAt(hits, 1) ELSE inp.quotes_db
            /\ hits /= {} => \E i \in hits : out.ret = inp.quotes_db[i]

\* a database of which some entries match and some do not, cut by top_k
C10_Witness ==
    /\ fn = "mock_model"
    /\ Len(inp.quotes_db) = 3
    /\ Len(out.pool) = 2
    /\ inp.top_k.given /\ inp.top_k.v = 1
    /\ inp.temperature > 0
    /\ out.ret = out.pool[2]

(***************************************************************************)
(* C10 as claimed: the pool holds the entries whose mood, as stored, is a  *)
(* substring of the lower-cased input, or the whole database when there is *)
(* none; when some entry so matches, the record returned is one of them.   *)
(***************************************************************************)
C10_StoredMoodMatches ==
    fn = "mock_model" =>
        LET hits == {i \in 1..Len(inp.quotes_db) :
                        Contains(lower(TextOf(inp.user_input)), MoodAt(i))}
        IN  /\ out.pool = IF hits /= {} THEN EntriesAt(hits, 1) ELSE inp.quotes_db
            /\ hits /= {} => \E i \in hits : out.ret = inp.quotes_db[i]

\* the lists of k entries of pool taken at pairwise distinct positions
DrawnWithoutRepetition(drawn, pool) ==
    \E pick \in [1..Len(drawn) -> 1..Len(pool)] :
        /\ \A i, j \in 1..Len(drawn) : i /= j => pick[i] /= pick[j]
        /\ \A i \in 1..Len(drawn) : drawn[i] = pool[pick[i]]

\* max(1, ceil(m * top_p)) for the top_p of the call
KeepOf(m) ==
    IF CeilOfProduct(m, inp.top_p) > 1 THEN CeilOfProduct(m, inp.top_p) ELSE 1

InOpenUnitInterval(top_p) == top_p.given /\ 0 < top_p.num /\ top_p.num < top_p.den

\* the prefix of the pool after top_k that top_p in (0,1) keeps
TopPKeepsPrefix ==
    InOpenUnitInterval(inp.top_p) =>
        LET m == Len(out.sampled)
        IN  out.final = SubSeq(out.sampled, 1, IF KeepOf(m) < m THEN KeepOf(m) ELSE m)

MatchingPositions ==
    {i \in 1..Len(inp.quotes_db) :
        Contains(lower(TextOf(inp.user_input)), lower(MoodAt(i)))}

\* the first matching entry in database order, or the first database entry
\* when nothing matches
FirstCandidate ==
    IF MatchingPositions /= {}
    THEN inp.quotes_db[CHOOSE i \in MatchingPositions :
                          \A j \in MatchingPositions : i <= j]
    ELSE inp.quotes_db[1]

IsFallbackRecord(record) ==
    /\ record.t = "obj"
    /\ HasKey(record, AuthorKey)
    /\ Get(record, AuthorKey) = JStr(<<"AI Coach">>)
    /\ HasKey(record, MoodKey)
    /\ Get(record, MoodKey) = inp.user_input

(***************************************************************************)
(* C13: the mock returns the fixed fallback record, whose mood is the raw  *)
(* input and whose author is "AI Coach", if and only if the quote database *)
(* is empty; for every non-empty database the record returned is an entry  *)
(* of that database, and the pool is empty at no stage, for every input,   *)
(* temperature, top_k and top_p.                                           *)
(***************************************************************************)
C13_FallbackIffEmptyDatabase ==
    fn = "mock_model" =>
        /\ IsFallbackRecord(out.ret) <=> inp.quotes_db = <<>>
        /\ inp.quotes_db = <<>> => out.ret = Fallback(inp.user_input)
        /\ inp.quotes_db /= <<>> =>
              /\ \E i \in 1..Len(inp.quotes_db) : out.ret = inp.quotes_db[i]
              /\ out.pool /= <<>> /\ out.sampled /= <<>> /\ out.final /= <<>>

\* an empty database asked with a mixed-case input, top_k and top_p given
C13_Witness ==
    /\ fn = "mock_model"
    /\ inp.quotes_db = <<>>
    /\ inp.user_input = JStr(<<"A", "b">>)
    /\ inp.top_k.given /\ inp.top_k.v = 1
    /\ inp.top_p.given /\ inp.top_p.num = 1 /\ inp.top_p.den = 2
    /\ inp.temperature > 0
    /\ Get(out.ret, MoodKey) = JStr(<<"A", "b">>)
    /\ Get(out.ret, AuthorKey) = JStr(<<"AI Coach">>)

\* last_output.json holds the text of exactly this record
FileHolds(file, record) ==
    /\ file.t = "file"
    /\ json_loads(file.v).ok
    /\ json_loads(file.v).val = record

(***************************************************************************)
(* C14: over any sequence of extractions, last_output.json is written only *)
(* for a record that passed validation: a call that ends in a parse        *)
(* failure, a validation failure or an exception leaves the file as it     *)
(* was, and after a successful call the file holds the JSON text of the    *)
(* record that the call returned, which decodes to that record.            *)
(***************************************************************************)
C14_SavedOnlyWhenValidated ==
    [][fn' = "get_structured_or_function_call" =>
          /\ (raised' \/ result' = PyNone) => last_output' = last_output
          /\ (~raised' /\ result' /= PyNone) =>
                /\ validate_structured_output(result').ok
                /\ last_output' = save_last_output(result')
                /\ FileHolds(last_output', result')]_vars

\* a validation failure after a successful extraction: the record of the
\* first call is still in the file
C14_Witness ==
    /\ n = 2
    /\ GotReply
    /\ result = PyNone
    /\ msg.head = ValidationHead
    /\ last_output.t = "file"
    /\ HasKey(json_loads(last_output.v).val, <<"x">>)

=============================================================================
